---- MODULE Spec2Model ----
(***************************************************************************)
(* The useSSE hook of frontend/src/hooks/useSSE.ts: an authenticated       *)
(* Server-Sent-Events client.  One React effect run creates one            *)
(* subscription attempt (the async function connect): it awaits the token, *)
(* awaits fetch, then reads the body fragment by fragment, splits the      *)
(* decoded text into lines and dispatches records to onMessage.  The       *)
(* effect cleanup and the returned disconnect() cancel an attempt.         *)
(*                                                                         *)
(* Text is a sequence of one-character strings; the body is a sequence of  *)
(* bytes, where "C3" "A9" is the two-byte UTF-8 encoding of the character  *)
(* "U+E9" and every other byte is the ASCII character of the same name.    *)
(***************************************************************************)
EXTENDS Integers, Sequences, FiniteSets, TLC

\* ------------------------------------------------------------------ bounds

\* Effect runs (subscription attempts) of one hook instance.
MaxAttempts == 2
\* Lines of a generated body in ParserSpec.
MaxLines == 3

Attempts == 1..MaxAttempts

\* ------------------------------------------------------- optional strings

\* A property of SSEMessage / Partial<SSEMessage>: undefined or a string.
Undef == [has |-> FALSE, v |-> <<>>]

Str(s) == [has |-> TRUE, v |-> s]

\* JavaScript truthiness of an optional string: undefined and '' are falsy.
Truthy(o) == o.has /\ o.v # <<>>

\* let currentEvent: Partial<SSEMessage> = {}
EmptyEvent == [event |-> Undef, data |-> Undef, id |-> Undef]

\* --------------------------------------------------------------- decoding

LeadByte == "C3"

ContByte == "A9"

Replacement == "U+FFFD"

RECURSIVE DecodeFrom(_, _, _)
\* TextDecoder('utf-8').decode(value, {stream: true}): pend is the lead byte
\* kept from the previous call (<<>> or <<LeadByte>>), out the text so far.
\* Returns [text, pend]: an incomplete sequence at the end of the fragment
\* is kept for the next call, an invalid one decodes to U+FFFD.
DecodeFrom(pend, bytes, out) ==
  IF bytes = <<>> THEN [text |-> out, pend |-> pend]
  ELSE LET b == Head(bytes) IN
    IF pend # <<>>
    THEN IF b = ContByte
         THEN DecodeFrom(<<>>, Tail(bytes), Append(out, "U+E9"))
         ELSE DecodeFrom(<<>>, bytes, Append(out, Replacement))
    ELSE IF b = LeadByte THEN DecodeFrom(<<b>>, Tail(bytes), out)
    ELSE IF b = ContByte THEN DecodeFrom(<<>>, Tail(bytes), Append(out, Replacement))
    ELSE DecodeFrom(<<>>, Tail(bytes), Append(out, b))

Decode(pend, bytes) == DecodeFrom(pend, bytes, <<>>)

\* ------------------------------------------------------------ line parsing

RECURSIVE SplitFrom(_, _, _)
\* String.prototype.split('\n'): n newlines give n + 1 segments.
SplitFrom(s, seg, acc) ==
  IF s = <<>> THEN Append(acc, seg)
  ELSE IF Head(s) = "\n" THEN SplitFrom(Tail(s), <<>>, Append(acc, seg))
  ELSE SplitFrom(Tail(s), Append(seg, Head(s)), acc)

Split(s) == SplitFrom(s, <<>>, <<>>)

\* The mutant of PopLast: the buffer is cleared instead of keeping the
\* incomplete last line.
PopLastCleared(lines) == <<>>

\* buffer = lines.pop() || ''
PopLast(lines) == lines[Len(lines)]

\* The mutant of Complete: the incomplete last segment is processed as a
\* line too.
CompleteAll(lines) == lines

\* lines after lines.pop()
Complete(lines) == SubSeq(lines, 1, Len(lines) - 1)

Whitespace == {" ", "\r", "\t"}

\* line.trim() === ''
IsBlank(line) == \A i \in 1..Len(line) : line[i] \in Whitespace

\* line.indexOf(':'), 0 standing for -1 (positions count from 1).
ColonIndex(line) ==
  IF \E i \in 1..Len(line) : line[i] = ":"
  THEN CHOOSE i \in 1..Len(line) : line[i] = ":" /\ \A j \in 1..(i - 1) : line[j] # ":"
  ELSE 0

\* line.slice(0, colonIndex)
FieldName(line) == SubSeq(line, 1, ColonIndex(line) - 1)

\* line.slice(colonIndex + 1), then one leading space removed.
FieldValue(line) ==
  LET value == SubSeq(line, ColonIndex(line) + 1, Len(line)) IN
  IF value # <<>> /\ Head(value) = " " THEN Tail(value) ELSE value

\* case 'data': joined with '\n' when the data so far is truthy.
AppendData(cur, value) ==
  [cur EXCEPT !.data = IF Truthy(cur.data) THEN Str(cur.data.v \o <<"\n">> \o value)
                       ELSE Str(value)]

\* The mutant of SetField: a field the parser does not know is taken as
\* data.
SetFieldUnknownAsData(cur, field, value) ==
  IF field = <<"e", "v", "e", "n", "t">> THEN [cur EXCEPT !.event = Str(value)]
  ELSE IF field = <<"i", "d">> THEN [cur EXCEPT !.id = Str(value)]
  ELSE AppendData(cur, value)

\* The switch on the field name; retry and unknown names change nothing.
SetField(cur, field, value) ==
  IF field = <<"e", "v", "e", "n", "t">> THEN [cur EXCEPT !.event = Str(value)]
  ELSE IF field = <<"d", "a", "t", "a">> THEN AppendData(cur, value)
  ELSE IF field = <<"i", "d">> THEN [cur EXCEPT !.id = Str(value)]
  ELSE cur

\* The mutant of ShouldDispatch: every blank line dispatches.
ShouldDispatchAlways(cur) == TRUE

\* if (currentEvent.data)
ShouldDispatch(cur) == Truthy(cur.data)

\* The argument of onMessage.
Message(cur) == [event |-> cur.event, data |-> cur.data, id |-> cur.id]

\* The mutant of HandleLine: the current event is reset only after a
\* dispatch.
HandleLineKeep(cur, line) ==
  IF IsBlank(line)
  THEN [cur |-> IF ShouldDispatch(cur) THEN EmptyEvent ELSE cur,
        emit |-> ShouldDispatch(cur), blank |-> TRUE]
  ELSE IF Head(line) = ":" \/ ColonIndex(line) = 0
  THEN [cur |-> cur, emit |-> FALSE, blank |-> FALSE]
  ELSE [cur |-> SetField(cur, FieldName(line), FieldValue(line)),
        emit |-> FALSE, blank |-> FALSE]

\* One iteration of `for (const line of lines)`: the event after the line,
\* and whether onMessage is called (with the event before the reset).
HandleLine(cur, line) ==
  IF IsBlank(line)
  THEN [cur |-> EmptyEvent, emit |-> ShouldDispatch(cur), blank |-> TRUE]
  ELSE IF Head(line) = ":" \/ ColonIndex(line) = 0
  THEN [cur |-> cur, emit |-> FALSE, blank |-> FALSE]
  ELSE [cur |-> SetField(cur, FieldName(line), FieldValue(line)),
        emit |-> FALSE, blank |-> FALSE]

\* What the caller's onMessage does during one fragment that dispatches up
\* to n records: its throwAt-th invocation throws, its discAt-th invocation
\* calls disconnect() (0: never).
Plans(n) == [throwAt : 0..n, discAt : 0..n]

WellBehaved == [throwAt |-> 0, discAt |-> 0]

RECURSIVE ForLinesReversed(_, _, _)
\* The mutant of ForLines: the records of one fragment are dispatched last
\* first.
ForLinesReversed(lines, st, plan) ==
  IF lines = <<>> \/ st.thrown THEN st
  ELSE LET r == HandleLine(st.cur, Head(lines))
           n == Len(st.out) + 1
       IN IF r.emit
          THEN ForLinesReversed(Tail(lines),
                 [cur |-> IF plan.throwAt = n THEN st.cur ELSE r.cur,
                  out |-> <<Message(st.cur)>> \o st.out,
                  thrown |-> plan.throwAt = n,
                  disc |-> IF plan.discAt = n THEN n ELSE st.disc],
                 plan)
          ELSE ForLinesReversed(Tail(lines), [st EXCEPT !.cur = r.cur], plan)

RECURSIVE ForLines(_, _, _)
\* The for loop over the complete lines of one fragment.  st: cur (the
\* current event), out (the messages passed to onMessage), thrown (onMessage
\* threw, which leaves the loop), disc (the index in out of the invocation
\* that called disconnect(), 0 if none).
ForLines(lines, st, plan) ==
  IF lines = <<>> \/ st.thrown THEN st
  ELSE LET r == HandleLine(st.cur, Head(lines))
           n == Len(st.out) + 1
       IN IF r.emit
          THEN ForLines(Tail(lines),
                 [cur |-> IF plan.throwAt = n THEN st.cur ELSE r.cur,
                  out |-> Append(st.out, Message(st.cur)),
                  thrown |-> plan.throwAt = n,
                  disc |-> IF plan.discAt = n THEN n ELSE st.disc],
                 plan)
          ELSE ForLines(Tail(lines), [st EXCEPT !.cur = r.cur], plan)

\* One pass of the loop body after a fragment was read: decode, split, keep
\* the last segment, run the for loop.
Feed(dec, buffer, cur, bytes, plan) ==
  LET d == Decode(dec, bytes)
      lines == Split(buffer \o d.text)
      st == ForLines(Complete(lines),
                     [cur |-> cur, out |-> <<>>, thrown |-> FALSE, disc |-> 0], plan)
  IN [dec |-> d.pend, buffer |-> PopLast(lines), cur |-> st.cur,
      out |-> st.out, thrown |-> st.thrown, disc |-> st.disc]

\* ------------------------------------------------------------------ state

VARIABLES
  serverBody,          \* the bytes the server sends on a connection
  cuts,                \* the positions of serverBody where a fragment may end
  phase,               \* "initial" (rendered, effect not yet run), "mounted", "unmounted"
  abortControllerRef,  \* abortControllerRef.current: an attempt, 0 for null
  cleanupOf,           \* the attempt whose cleanup React holds, 0 for none
  attempts,            \* effect runs that created an attempt so far
  att                  \* per attempt: the locals of one effect run and of connect

vars == <<serverBody, cuts, phase, abortControllerRef, cleanupOf, attempts, att>>

\* An attempt before its effect run.  pc: the await connect is suspended at
\* ("awaitToken", "awaitFetch", "awaitRead"), "none" before, "done" after;
\* settled: how the awaited promise settled, "none" while it is pending;
\* frag: the bytes of a settled read; pos: the bytes read so far.
\* History kept for the properties: msgs, errors (the onMessage and onError
\* invocations), fetchCalls, requests, cancelReq (cancellation was
\* requested), cancelInToken (... while awaiting the token), late and
\* lateErrors (invocations after cancelReq), failure (what threw into the
\* catch), failAfterCancel (cancelReq held when it threw), outcome, midLine
\* (a fragment ended inside a line).
NoAttempt ==
  [pc |-> "none", settled |-> "none", frag |-> <<>>, pos |-> 0,
   isSubscribed |-> FALSE, aborted |-> FALSE,
   dec |-> <<>>, buffer |-> <<>>, cur |-> EmptyEvent,
   msgs |-> <<>>, errors |-> 0, fetchCalls |-> 0, requests |-> 0,
   cancelReq |-> FALSE, cancelInToken |-> FALSE, late |-> 0, lateErrors |-> 0,
   failure |-> "none", failAfterCancel |-> FALSE, outcome |-> "none",
   midLine |-> FALSE]

\* let isSubscribed = true; new AbortController(); connect() up to its first
\* await, which has called getToken().
Started == [NoAttempt EXCEPT !.pc = "awaitToken", !.isSubscribed = TRUE]

\* abortController.abort(): the signal is aborted; a pending fetch or read
\* bound to the signal rejects with an AbortError (getToken is not bound).
Abort(at) ==
  [at EXCEPT !.aborted = TRUE,
             !.settled = IF at.pc \in {"awaitFetch", "awaitRead"} /\ at.settled = "none"
                         THEN "abort" ELSE @,
             !.cancelReq = TRUE,
             !.cancelInToken = @ \/ (at.pc = "awaitToken" /\ ~at.cancelReq)]

\* The mutant of Cleanup: the previous attempt is left running.
CleanupForgotten(at) == at

\* The effect cleanup: isSubscribed = false; abortController.abort().
Cleanup(at) == [Abort(at) EXCEPT !.isSubscribed = FALSE]

\* The mutant of ShouldReport: the aborted signal is not consulted.
ShouldReportSubscribed(at) == at.isSubscribed

\* The mutant of ShouldReport: the test on the signal is inverted.
ShouldReportInverted(at) == at.aborted /\ at.isSubscribed

\* if (!abortController.signal.aborted && isSubscribed)
ShouldReport(at) == ~at.aborted /\ at.isSubscribed

\* The mutant of Catch: the error is reported and connect starts over.
CatchRetry(at, why) ==
  [at EXCEPT !.pc = "awaitToken", !.settled = "none", !.errors = @ + 1,
             !.failure = why]

\* The mutant of Return: at the end of the stream the record accumulated so
\* far is dispatched.
ReturnFlush(at, outcome) ==
  [at EXCEPT !.pc = "done", !.settled = "none", !.frag = <<>>,
             !.dec = <<>>, !.buffer = <<>>, !.cur = EmptyEvent,
             !.outcome = outcome,
             !.msgs = IF outcome = "closed" /\ Truthy(at.cur.data)
                      THEN Append(@, Message(at.cur)) ELSE @]

\* The mutant of Return: the end of the stream is reported as an error.
ReturnReported(at, outcome) ==
  [at EXCEPT !.pc = "done", !.settled = "none", !.frag = <<>>,
             !.dec = <<>>, !.buffer = <<>>, !.cur = EmptyEvent,
             !.outcome = outcome,
             !.errors = IF outcome = "closed" THEN @ + 1 ELSE @]

\* connect returns: its locals are gone.
Return(at, outcome) ==
  [at EXCEPT !.pc = "done", !.settled = "none", !.frag = <<>>,
             !.dec = <<>>, !.buffer = <<>>, !.cur = EmptyEvent,
             !.outcome = outcome]

\* catch (error) { ... }: onError is called when ShouldReport, and connect
\* returns.
Catch(at, why) ==
  [Return(at, "failed") EXCEPT
             !.failure = why, !.failAfterCancel = at.cancelReq,
             !.errors = IF ShouldReport(at) THEN @ + 1 ELSE @,
             !.lateErrors = IF ShouldReport(at) /\ at.cancelReq THEN @ + 1 ELSE @]

\* The mutant of IssueFetch: the signal is not passed to fetch.
IssueFetchNoSignal(at) ==
  [at EXCEPT !.pc = "awaitFetch", !.settled = "none",
             !.fetchCalls = @ + 1, !.requests = @ + 1]

\* await fetch(url, {..., signal}): with an aborted signal fetch rejects at
\* once with an AbortError and sends nothing.
IssueFetch(at) ==
  [at EXCEPT !.pc = "awaitFetch",
             !.settled = IF at.aborted THEN "abort" ELSE "none",
             !.fetchCalls = @ + 1,
             !.requests = IF at.aborted THEN @ ELSE @ + 1]

\* while (isSubscribed) { await reader.read() ...: the loop's test and the
\* next read, which rejects at once when the signal is aborted.
LoopHead(at) ==
  IF at.isSubscribed
  THEN [at EXCEPT !.pc = "awaitRead", !.frag = <<>>,
                  !.settled = IF at.aborted THEN "abort" ELSE "none"]
  ELSE Return(at, "cancelled")

\* ------------------------------------------------------------ server bodies

Line_data_a == <<"d", "a", "t", "a", ":", "a">>

Line_data_b == <<"d", "a", "t", "a", ":", "b">>

\* The body of the lifecycle specification: two records.
TwoRecords == Line_data_a \o <<"\n", "\n">> \o Line_data_b \o <<"\n", "\n">>

\* The positions after a newline: the server flushes line by line.
LineEnds(body) == {i \in 1..Len(body) : body[i] = "\n"}

Init ==
  /\ serverBody = TwoRecords
  /\ cuts = LineEnds(TwoRecords)
  /\ phase = "initial"
  /\ abortControllerRef = 0
  /\ cleanupOf = 0
  /\ attempts = 0
  /\ att = [a \in Attempts |-> NoAttempt]

\* ---------------------------------------------------------------- the hook

\* The effect runs (mount, or a change of url, getToken, onMessage, onError
\* or enabled): React first runs the cleanup of the previous run, then the
\* effect body, which returns at once when !enabled and otherwise starts an
\* attempt and stores its controller in the ref.
EffectRun(enabled) ==
  /\ phase # "unmounted"
  /\ enabled => attempts < MaxAttempts
  /\ phase' = "mounted"
  /\ LET cleaned == [b \in Attempts |-> IF b = cleanupOf THEN Cleanup(att[b]) ELSE att[b]]
         ref == IF cleanupOf # 0 THEN 0 ELSE abortControllerRef
         new == attempts + 1
     IN IF enabled
        THEN /\ att' = [cleaned EXCEPT ![new] = Started]
             /\ abortControllerRef' = new
             /\ cleanupOf' = new
             /\ attempts' = new
        ELSE /\ att' = cleaned
             /\ abortControllerRef' = ref
             /\ cleanupOf' = 0
             /\ attempts' = attempts
  /\ UNCHANGED <<serverBody, cuts>>

\* The component unmounts: React runs the cleanup of the last effect run.
Unmount ==
  /\ phase = "mounted"
  /\ phase' = "unmounted"
  /\ att' = [b \in Attempts |-> IF b = cleanupOf THEN Cleanup(att[b]) ELSE att[b]]
  /\ abortControllerRef' = IF cleanupOf # 0 THEN 0 ELSE abortControllerRef
  /\ cleanupOf' = 0
  /\ UNCHANGED <<serverBody, cuts, attempts>>

\* The mutant of Disconnect: the abort is reported to onError.
DisconnectReports ==
  /\ att' = [b \in Attempts |->
               IF b = abortControllerRef
               THEN [Abort(att[b]) EXCEPT !.errors = @ + 1] ELSE att[b]]
  /\ UNCHANGED <<serverBody, cuts, phase, abortControllerRef, cleanupOf, attempts>>

\* disconnect: () => { abortControllerRef.current?.abort() }
Disconnect ==
  /\ att' = [b \in Attempts |-> IF b = abortControllerRef THEN Abort(att[b]) ELSE att[b]]
  /\ UNCHANGED <<serverBody, cuts, phase, abortControllerRef, cleanupOf, attempts>>

\* The promise of getToken() settles.
TokenSettle(a, result) ==
  /\ att[a].pc = "awaitToken" /\ att[a].settled = "none"
  /\ result \in {"resolve", "reject"}
  /\ att' = [att EXCEPT ![a].settled = result]
  /\ UNCHANGED <<serverBody, cuts, phase, abortControllerRef, cleanupOf, attempts>>

\* connect resumes after await getToken(): a rejection is thrown into the
\* catch, otherwise fetch is called.
TokenResume(a) ==
  /\ att[a].pc = "awaitToken" /\ att[a].settled # "none"
  /\ att' = [att EXCEPT ![a] = IF att[a].settled = "reject"
                                THEN Catch(att[a], "token")
                                ELSE IssueFetch(att[a])]
  /\ UNCHANGED <<serverBody, cuts, phase, abortControllerRef, cleanupOf, attempts>>

\* The promise of fetch settles: a response that is ok, one that is not, an
\* ok response without a body, or a network failure.
FetchSettle(a, result) ==
  /\ att[a].pc = "awaitFetch" /\ att[a].settled = "none"
  /\ result \in {"ok", "notok", "nobody", "neterr"}
  /\ att' = [att EXCEPT ![a].settled = result]
  /\ UNCHANGED <<serverBody, cuts, phase, abortControllerRef, cleanupOf, attempts>>

\* The mutant of FetchResume: response.ok is not looked at.
FetchResumeUnchecked(a) ==
  /\ att[a].pc = "awaitFetch" /\ att[a].settled # "none"
  /\ att' = [att EXCEPT ![a] =
               CASE att[a].settled \in {"ok", "notok"} -> LoopHead(att[a])
                 [] att[a].settled = "nobody" -> Catch(att[a], "body")
                 [] OTHER -> Catch(att[a], "fetch")]
  /\ UNCHANGED <<serverBody, cuts, phase, abortControllerRef, cleanupOf, attempts>>

\* connect resumes after await fetch(): rejections, !response.ok and a
\* missing reader throw into the catch; otherwise the read loop is entered.
FetchResume(a) ==
  /\ att[a].pc = "awaitFetch" /\ att[a].settled # "none"
  /\ att' = [att EXCEPT ![a] =
               CASE att[a].settled = "ok" -> LoopHead(att[a])
                 [] att[a].settled = "notok" -> Catch(att[a], "status")
                 [] att[a].settled = "nobody" -> Catch(att[a], "body")
                 [] OTHER -> Catch(att[a], "fetch")]
  /\ UNCHANGED <<serverBody, cuts, phase, abortControllerRef, cleanupOf, attempts>>

\* The promise of reader.read() settles with the next n bytes of the body.
ReadChunk(a, n) ==
  /\ att[a].pc = "awaitRead" /\ att[a].settled = "none"
  /\ n \in 1..(Len(serverBody) - att[a].pos)
  /\ att[a].pos + n \in cuts
  /\ att' = [att EXCEPT ![a].settled = "chunk",
                        ![a].frag = SubSeq(serverBody, att[a].pos + 1, att[a].pos + n)]
  /\ UNCHANGED <<serverBody, cuts, phase, abortControllerRef, cleanupOf, attempts>>

\* The promise of reader.read() settles with done (the server closed the
\* stream) or rejects (the connection failed).
ReadEnd(a, result) ==
  /\ att[a].pc = "awaitRead" /\ att[a].settled = "none"
  /\ result \in {"eof", "neterr"}
  /\ att' = [att EXCEPT ![a].settled = result]
  /\ UNCHANGED <<serverBody, cuts, phase, abortControllerRef, cleanupOf, attempts>>

\* connect after await reader.read() settled (at.settled, at.frag): a
\* rejection throws into the catch, done leaves the loop, a fragment is fed
\* to the parser and its records dispatched, then the loop goes on.  An
\* onMessage that throws is thrown into the catch; self: the disconnect()
\* an onMessage calls aborts this attempt's own controller.
AfterRead(at, plan, self) ==
  LET f == Feed(at.dec, at.buffer, at.cur, at.frag, plan)
      late == IF at.cancelReq THEN Len(f.out)
              ELSE IF self /\ f.disc > 0 THEN Len(f.out) - f.disc ELSE 0
      fed == [at EXCEPT !.dec = f.dec, !.buffer = f.buffer, !.cur = f.cur,
                        !.msgs = @ \o f.out, !.late = @ + late,
                        !.pos = @ + Len(at.frag),
                        !.midLine = @ \/ f.buffer # <<>>]
      hit == IF self /\ f.disc > 0 THEN Abort(fed) ELSE fed
  IN CASE at.settled = "chunk" ->
            IF f.thrown THEN Catch(hit, "callback") ELSE LoopHead(hit)
       [] at.settled = "eof" ->
            Return(at, "closed")
       [] OTHER -> Catch(at, "read")

\* The plans for the fragment an attempt is about to process.
PlansFor(at) ==
  IF at.settled = "chunk"
  THEN Plans(Len(Feed(at.dec, at.buffer, at.cur, at.frag, WellBehaved).out))
  ELSE {WellBehaved}

\* Whether the plan's disconnect() is called while at.frag is processed.
Disconnects(at, plan) ==
  at.settled = "chunk" /\ Feed(at.dec, at.buffer, at.cur, at.frag, plan).disc > 0

\* connect resumes after await reader.read().  The disconnect() of an
\* onMessage aborts the controller in the ref, this attempt's or a later
\* one's.
ReadResume(a, plan) ==
  /\ att[a].pc = "awaitRead" /\ att[a].settled # "none"
  /\ plan \in PlansFor(att[a])
  /\ LET target == IF Disconnects(att[a], plan) THEN abortControllerRef ELSE 0
     IN att' = [b \in Attempts |->
                  IF b = a THEN AfterRead(att[a], plan, target = a)
                  ELSE IF b = target THEN Abort(att[b])
                  ELSE att[b]]
  /\ UNCHANGED <<serverBody, cuts, phase, abortControllerRef, cleanupOf, attempts>>

\* A read that settles with the next n bytes and whose continuation runs
\* before anything else does.
ReadStep(a, n) ==
  /\ att[a].pc = "awaitRead" /\ att[a].settled = "none"
  /\ n \in 1..(Len(serverBody) - att[a].pos)
  /\ att[a].pos + n \in cuts
  /\ att' = [att EXCEPT ![a] =
               AfterRead([att[a] EXCEPT !.settled = "chunk",
                            !.frag = SubSeq(serverBody, att[a].pos + 1, att[a].pos + n)],
                         WellBehaved, FALSE)]
  /\ UNCHANGED <<serverBody, cuts, phase, abortControllerRef, cleanupOf, attempts>>

\* A read that settles with done and whose continuation runs before
\* anything else does.
ReadClose(a) ==
  /\ att[a].pc = "awaitRead" /\ att[a].settled = "none"
  /\ att' = [att EXCEPT ![a] =
               AfterRead([att[a] EXCEPT !.settled = "eof"], WellBehaved, FALSE)]
  /\ UNCHANGED <<serverBody, cuts, phase, abortControllerRef, cleanupOf, attempts>>

Next ==
  \/ \E enabled \in BOOLEAN : EffectRun(enabled)
  \/ Unmount
  \/ Disconnect
  \/ \E a \in Attempts, r \in {"resolve", "reject"} : TokenSettle(a, r)
  \/ \E a \in Attempts : TokenResume(a)
  \/ \E a \in Attempts, r \in {"ok", "notok", "nobody", "neterr"} : FetchSettle(a, r)
  \/ \E a \in Attempts : FetchResume(a)
  \/ \E a \in Attempts, n \in 1..Len(serverBody) : ReadChunk(a, n)
  \/ \E a \in Attempts, r \in {"eof", "neterr"} : ReadEnd(a, r)
  \/ \E a \in Attempts : \E plan \in PlansFor(att[a]) : ReadResume(a, plan)

Spec == Init /\ [][Next]_vars

\* ------------------------------------------------ the parser on its own

\* The lines of the generated bodies: the fields the parser knows, with an
\* empty value, a two-byte character and a leading space among the values,
\* and the lines it ignores.
Lines ==
  { <<>>,
    <<" ">>,
    <<"d", "a", "t", "a", ":", " ", "a">>,
    <<"d", "a", "t", "a", ":">>,
    <<"i", "d", ":", LeadByte, ContByte>>,
    <<"e", "v", "e", "n", "t", ":", "s">>,
    <<":", "c">>,
    <<"x", ":", "y">>,
    <<"i", "d">>,
    <<"r", "e", "t", "r", "y", ":">> }

RECURSIVE Bodies(_)
\* The bodies of at most n lines, each line ended by a newline.
Bodies(n) ==
  IF n = 0 THEN {<<>>}
  ELSE LET shorter == Bodies(n - 1)
       IN shorter \cup {b \o l \o <<"\n">> : b \in shorter, l \in Lines}

\* One attempt on any generated body, cut into fragments anywhere, closed
\* by the server anywhere; no failure, no cancellation, an onMessage that
\* returns.
ParserInit ==
  /\ serverBody \in Bodies(MaxLines)
  /\ cuts = 1..Len(serverBody)
  /\ phase = "initial"
  /\ abortControllerRef = 0
  /\ cleanupOf = 0
  /\ attempts = 0
  /\ att = [a \in Attempts |-> NoAttempt]

ParserNext ==
  \/ attempts = 0 /\ EffectRun(TRUE)
  \/ TokenSettle(1, "resolve")
  \/ TokenResume(1)
  \/ FetchSettle(1, "ok")
  \/ FetchResume(1)
  \/ \E n \in 1..Len(serverBody) : ReadStep(1, n)
  \/ ReadClose(1)

ParserSpec == ParserInit /\ [][ParserNext]_vars

\* ------------------------------------------- streams of several records

Line_event_s == <<"e", "v", "e", "n", "t", ":", "s">>

\* The blocks of the bodies below: data "a", data "b", the two-line data
\* "a", "b", an event field without data, and a blank line alone.
Records ==
  { Line_data_a \o <<"\n", "\n">>,
    Line_data_b \o <<"\n", "\n">>,
    Line_data_a \o <<"\n">> \o Line_data_b \o <<"\n", "\n">>,
    Line_event_s \o <<"\n", "\n">>,
    <<"\n">> }

\* The bodies of two blocks.
RecordBodies == {r1 \o r2 : r1, r2 \in Records}

\* One attempt on a body of two blocks, cut into fragments anywhere.
OrderInit ==
  /\ serverBody \in RecordBodies
  /\ cuts = 1..Len(serverBody)
  /\ phase = "initial"
  /\ abortControllerRef = 0
  /\ cleanupOf = 0
  /\ attempts = 0
  /\ att = [a \in Attempts |-> NoAttempt]

OrderSpec == OrderInit /\ [][ParserNext]_vars

\* ------------------------------------------------------------ properties

\* The attempts that are neither finished nor cancelled.
Live(a) ==
  /\ att[a].pc \in {"awaitToken", "awaitFetch", "awaitRead"}
  /\ att[a].isSubscribed
  /\ ~att[a].aborted

\* C1: after cancellation was requested for an attempt (by the cleanup or
\* by disconnect()), onMessage is never invoked again for that attempt.
C1_NoMessageAfterCancel == \A a \in Attempts : att[a].late = 0

\* C3: onError is never invoked for an attempt after its cancellation was
\* requested; in particular a failure thrown after the cancellation (a token
\* or fetch rejection, a response that is not ok, a read rejection) is not
\* reported, whichever of the cleanup and disconnect() cancelled.
C3_NoErrorAfterCancel ==
  \A a \in Attempts :
    /\ att[a].lateErrors = 0
    /\ att[a].failAfterCancel => att[a].errors = 0

\* Attempt 1 was cancelled by the cleanup and its token then rejected;
\* attempt 2 was cancelled by disconnect() alone and its read then rejected.
C3_Witness ==
  /\ att[1].failAfterCancel /\ att[1].failure = "token" /\ ~att[1].isSubscribed
  /\ att[2].failAfterCancel /\ att[2].failure = "read" /\ att[2].isSubscribed
  /\ att[1].errors = 0 /\ att[2].errors = 0

\* C4: an onMessage that throws does not lead to an onError invocation (the
\* exception is not absorbed by connect's try/catch).
C4_CallbackThrowNotReported ==
  \A a \in Attempts : att[a].failure = "callback" => att[a].errors = 0

\* C5: onError is invoked at most once per attempt, and once it was invoked
\* the attempt is finished: no read is pending or issued, nothing more is
\* dispatched to onMessage and no fragment is consumed.
C5_AtMostOneError ==
  [][\A a \in Attempts :
       /\ att'[a].errors <= 1
       /\ att[a].errors >= 1 =>
            /\ att[a].pc = "done" /\ att'[a].pc = "done"
            /\ att'[a].errors = att[a].errors
            /\ att'[a].msgs = att[a].msgs
            /\ att'[a].pos = att[a].pos]_vars

\* An attempt that dispatched records, then reported a read failure, and was
\* cancelled afterwards.
C5_Witness ==
  \E a \in Attempts :
    /\ att[a].errors = 1 /\ att[a].failure = "read"
    /\ att[a].msgs # <<>> /\ att[a].cancelReq

\* C7: when getToken rejects and no cancellation was requested before the
\* rejection is caught, onError is invoked exactly once and fetch is never
\* called; a token rejection never leads to a fetch.
C7_TokenRejected ==
  \A a \in Attempts :
    att[a].failure = "token" =>
      /\ att[a].fetchCalls = 0 /\ att[a].requests = 0
      /\ ~att[a].failAfterCancel => att[a].errors = 1

C7_Witness ==
  \E a \in Attempts :
    att[a].failure = "token" /\ ~att[a].failAfterCancel /\ att[a].errors = 1

\* C8 as claimed: an attempt cancelled while awaiting the token never calls
\* fetch.
C8_NoFetchCall ==
  \A a \in Attempts : att[a].cancelInToken => att[a].fetchCalls = 0

\* C8 as amended: an attempt cancelled while awaiting the token sends no
\* request (the fetch it calls once the token resolves carries the aborted
\* signal and rejects at once), dispatches nothing and reports no error.
C8_NoRequest ==
  \A a \in Attempts :
    att[a].cancelInToken =>
      /\ att[a].requests = 0 /\ att[a].errors = 0 /\ att[a].msgs = <<>>
      /\ att[a].pc = "awaitFetch" => att[a].settled = "abort"
      /\ att[a].pc \in {"awaitToken", "awaitFetch", "done"}

\* Cancelled while awaiting the token, the token resolved, fetch was called
\* and the attempt ended.
C8_Witness ==
  \E a \in Attempts :
    /\ att[a].cancelInToken /\ att[a].fetchCalls = 1
    /\ att[a].pc = "done" /\ att[a].failure = "fetch"

\* C9: at most one attempt is live (suspended in connect and not cancelled)
\* at any time, it is the one whose controller the ref holds, and so at most
\* one attempt has a read pending on a connection that was not aborted.
C9_OneLiveAttempt ==
  /\ Cardinality({a \in Attempts : Live(a)}) <= 1
  /\ \A a \in Attempts : Live(a) => abortControllerRef = a /\ cleanupOf = a

\* The effect ran again while attempt 1 was reading: attempt 1 is cancelled
\* and not yet finished, attempt 2 is live and reading.
C9_Witness ==
  /\ att[1].pc = "awaitRead" /\ att[1].cancelReq
  /\ Live(2) /\ att[2].pc = "awaitRead" /\ att[2].settled = "none"

\* The text decoded from the bytes an attempt has consumed.
ConsumedText(a) == Decode(<<>>, SubSeq(serverBody, 1, att[a].pos)).text

\* The complete lines of that text.
ConsumedLines(a) == Complete(Split(ConsumedText(a)))

\* The records dispatched when the consumed bytes are fed as one fragment.
OneShot(a) ==
  Feed(<<>>, <<>>, EmptyEvent, SubSeq(serverBody, 1, att[a].pos), WellBehaved).out

\* C2: whatever the fragments the consumed bytes arrived in, the records
\* dispatched to onMessage are those dispatched when the same bytes are fed
\* as a single fragment.
C2_ChunkInvariance == \A a \in Attempts : att[a].msgs = OneShot(a)

\* "data: a", newline, newline arrived in fragments one of which ended
\* inside a line, and the record was dispatched.
C2_Witness ==
  /\ serverBody = <<"d", "a", "t", "a", ":", " ", "a", "\n", "\n">>
  /\ att[1].midLine /\ att[1].pos = Len(serverBody)
  /\ att[1].msgs = <<[event |-> Undef, data |-> Str(<<"a">>), id |-> Undef]>>

\* A line that sets the data field.
IsDataLine(line) ==
  /\ ~IsBlank(line) /\ Head(line) # ":" /\ ColonIndex(line) # 0
  /\ FieldName(line) = <<"d", "a", "t", "a">>

RECURSIVE Join(_)
\* The values joined with a newline.
Join(vals) ==
  IF vals = <<>> THEN <<>>
  ELSE IF Len(vals) = 1 THEN vals[1]
  ELSE vals[1] \o <<"\n">> \o Join(Tail(vals))

RECURSIVE JoinedData(_, _, _, _)
\* For each record the parser dispatches over the lines: all data values
\* received since the previous blank line, joined with a newline.
JoinedData(lines, cur, vals, acc) ==
  IF lines = <<>> THEN acc
  ELSE LET line == Head(lines)
           r == HandleLine(cur, line)
       IN IF r.blank
          THEN JoinedData(Tail(lines), r.cur, <<>>,
                          IF r.emit THEN Append(acc, Join(vals)) ELSE acc)
          ELSE JoinedData(Tail(lines), r.cur,
                          IF IsDataLine(line) THEN Append(vals, FieldValue(line)) ELSE vals,
                          acc)

\* C6: the data of every dispatched record is the newline-join, in arrival
\* order, of all data values received since the previous blank line, empty
\* values included.
C6_DataJoined ==
  \A a \in Attempts :
    [i \in 1..Len(att[a].msgs) |-> att[a].msgs[i].data.v]
      = JoinedData(ConsumedLines(a), EmptyEvent, <<>>, <<>>)

\* The blank lines that end a block holding a data line with a value.
Emitting(lines) ==
  {i \in 1..Len(lines) :
     /\ IsBlank(lines[i])
     /\ \E j \in 1..(i - 1) :
          /\ IsDataLine(lines[j]) /\ FieldValue(lines[j]) # <<>>
          /\ \A k \in j..(i - 1) : ~IsBlank(lines[k])}

\* C10: every dispatched record has non-empty data, exactly one record is
\* dispatched per blank line that ends a block holding a non-empty data
\* value, so a block of id, event or empty data lines dispatches nothing,
\* and nothing is thrown.
C10_DispatchOnlyData ==
  \A a \in Attempts :
    /\ \A i \in 1..Len(att[a].msgs) : Truthy(att[a].msgs[i].data)
    /\ Len(att[a].msgs) = Cardinality(Emitting(ConsumedLines(a)))
    /\ att[a].failure = "none" /\ att[a].errors = 0

\* An id line, an empty data line and a blank line were consumed and nothing
\* was dispatched.
C10_Witness ==
  /\ serverBody = <<"i", "d", ":", LeadByte, ContByte, "\n",
                    "d", "a", "t", "a", ":", "\n", "\n">>
  /\ att[1].pos = Len(serverBody) /\ att[1].pc = "done"
  /\ att[1].msgs = <<>> /\ att[1].cur = EmptyEvent

\* C11: when the stream ends (read returns done) before a terminating blank
\* line arrived, the record accumulated so far and the pending unterminated
\* line are discarded: the step that ends the stream invokes no onMessage,
\* and the records dispatched are those of the blank lines consumed.
C11_EndDiscardsPartial ==
  [][\A a \in Attempts :
       att'[a].outcome = "closed" /\ att[a].outcome # "closed" =>
         /\ att'[a].msgs = att[a].msgs
         /\ Len(att'[a].msgs) = Cardinality(Emitting(ConsumedLines(a)))
         /\ att'[a].errors = att[a].errors]_vars

\* "data: a", newline, "data" were consumed (a record under construction and
\* a pending line), the stream ended and nothing was dispatched.
C11_Witness ==
  /\ serverBody = <<"d", "a", "t", "a", ":", " ", "a", "\n",
                    "d", "a", "t", "a", ":", " ", "a", "\n">>
  /\ att[1].pos = 12 /\ att[1].outcome = "closed"
  /\ att[1].midLine /\ att[1].msgs = <<>>

\* C12: the end of the stream is not an error: when reader.read() returns
\* done the attempt leaves the read loop and is finished (Closed), and
\* onError was not invoked for it.
C12_EndIsNotAnError ==
  \A a \in Attempts :
    /\ att[a].outcome = "closed" =>
         /\ att[a].pc = "done" /\ att[a].errors = 0 /\ att[a].failure = "none"
    /\ att[a].pc = "awaitRead" /\ att[a].settled = "eof" => att[a].errors = 0

\* An attempt that dispatched both records and then saw the end of the
\* stream, with no cancellation.
C12_Witness ==
  \E a \in Attempts :
    /\ att[a].outcome = "closed" /\ ~att[a].cancelReq
    /\ Len(att[a].msgs) = 2 /\ att[a].pos = Len(serverBody)

\* C13: disconnect() is idempotent: a call invokes neither onMessage nor
\* onError and moves no attempt, a second call right after it changes
\* nothing, a call on an attempt that already ended leaves what it did
\* untouched, and a call while the ref holds no controller (before the first
\* attempt, after the cleanup) changes nothing at all.
C13_DisconnectIdempotent ==
  [][Disconnect =>
       /\ \A a \in Attempts :
            /\ att'[a].msgs = att[a].msgs /\ att'[a].errors = att[a].errors
            /\ att'[a].pc = att[a].pc /\ att'[a].pos = att[a].pos
            /\ att'[a].outcome = att[a].outcome
            /\ att'[a].isSubscribed = att[a].isSubscribed
            /\ a = abortControllerRef' => Abort(att'[a]) = att'[a]
            /\ a # abortControllerRef => att'[a] = att[a]
       /\ abortControllerRef = 0 => att' = att]_vars

\* disconnect() was called on attempt 2 after it had ended on its own with
\* an error reported, and attempt 1 was cancelled by the cleanup before.
C13_Witness ==
  /\ abortControllerRef = 2
  /\ att[2].pc = "done" /\ att[2].errors = 1 /\ ~att[2].failAfterCancel
  /\ att[2].aborted /\ att[2].isSubscribed
  /\ att[1].aborted /\ ~att[1].isSubscribed

\* A line that sets the event field.
IsEventLine(line) ==
  /\ ~IsBlank(line) /\ Head(line) # ":" /\ ColonIndex(line) # 0
  /\ FieldName(line) = <<"e", "v", "e", "n", "t">>

\* C14: a dispatched record whose block contained no event field carries
\* the event type "message", never an absent value.
C14_DefaultEventType ==
  \A a \in Attempts : \A i \in 1..Len(att[a].msgs) :
    /\ att[a].msgs[i].event # Undef
    /\ (\A k \in 1..Len(ConsumedLines(a)) : ~IsEventLine(ConsumedLines(a)[k]))
         => att[a].msgs[i].event = Str(<<"m", "e", "s", "s", "a", "g", "e">>)

\* The lines that are neither blank nor an event, data or id field: comment
\* lines, lines without a colon, lines with another field name.
Ignored(line) ==
  /\ ~IsBlank(line)
  /\ \/ Head(line) = ":"
     \/ ColonIndex(line) = 0
     \/ FieldName(line) \notin {<<"e", "v", "e", "n", "t">>, <<"d", "a", "t", "a">>, <<"i", "d">>}

NotIgnored(line) == ~Ignored(line)

\* The current event and the records dispatched when only the lines that
\* are not ignored are processed.
WithoutIgnored(lines) ==
  ForLines(SelectSeq(lines, NotIgnored),
           [cur |-> EmptyEvent, out |-> <<>>, thrown |-> FALSE, disc |-> 0],
           WellBehaved)

\* C15: comment lines, lines without a colon and lines with an unknown
\* field name (retry included) leave the event, data and id under
\* construction unchanged and dispatch nothing: the records dispatched and
\* the current event are those of the stream without these lines.
C15_IgnoredLines ==
  \A a \in Attempts :
    /\ att[a].msgs = WithoutIgnored(ConsumedLines(a)).out
    /\ att[a].pc = "awaitRead" => att[a].cur = WithoutIgnored(ConsumedLines(a)).cur

\* "data: a", "retry:" and a blank line were consumed and one record with
\* data "a" was dispatched.
C15_Witness ==
  /\ serverBody = <<"d", "a", "t", "a", ":", " ", "a", "\n",
                    "r", "e", "t", "r", "y", ":", "\n", "\n">>
  /\ att[1].pos = Len(serverBody) /\ att[1].pc = "awaitRead"
  /\ att[1].msgs = <<[event |-> Undef, data |-> Str(<<"a">>), id |-> Undef]>>

\* The k-th smallest member of a set of positions.
Nth(S, k) == CHOOSE i \in S : Cardinality({j \in S : j < i}) = k - 1

\* The lines between the blank line before position i (or the start) and
\* position i.
BlockOf(lines, i) ==
  LET start == IF \E j \in 1..(i - 1) : IsBlank(lines[j])
               THEN 1 + CHOOSE j \in 1..(i - 1) :
                          IsBlank(lines[j]) /\ \A k \in (j + 1)..(i - 1) : ~IsBlank(lines[k])
               ELSE 1
  IN SubSeq(lines, start, i - 1)

\* The values of the data lines of that block, in order.
BlockData(lines, i) ==
  LET data == SelectSeq(BlockOf(lines, i), IsDataLine)
  IN [k \in 1..Len(data) |-> FieldValue(data[k])]

\* The k-th record an attempt dispatched is that of the k-th blank line,
\* among those it consumed, that ends a record.
InStreamOrder(a) ==
  LET lines == ConsumedLines(a)
      ends == Emitting(lines)
      msgs == att[a].msgs
  IN /\ Len(msgs) = Cardinality(ends)
     /\ \A k \in 1..Len(msgs) :
          msgs[k].data.v = Join(BlockData(lines, Nth(ends, k)))

\* C16: within one attempt the records are dispatched in the order of their
\* terminating blank lines in the stream, one at a time, whatever the
\* fragments: before every step the k-th record dispatched is that of the
\* k-th blank line that ends a record, and the step only appends to what
\* was dispatched.
C16_DispatchOrder ==
  [][\A a \in Attempts :
       /\ InStreamOrder(a)
       /\ Len(att'[a].msgs) >= Len(att[a].msgs)
       /\ SubSeq(att'[a].msgs, 1, Len(att[a].msgs)) = att[a].msgs]_vars

\* The records "b" and then "a" arrived in one fragment, after a fragment
\* that ended inside a line, and were dispatched in that order.
C16_Witness ==
  /\ serverBody = Line_data_b \o <<"\n", "\n">> \o Line_data_a \o <<"\n", "\n">>
  /\ att[1].midLine /\ att[1].pc = "awaitRead"
  /\ att[1].msgs = <<[event |-> Undef, data |-> Str(<<"b">>), id |-> Undef],
                     [event |-> Undef, data |-> Str(<<"a">>), id |-> Undef]>>

\* An attempt in a terminal state: connect returned (Closed at the end of
\* the stream, Failed in the catch) or the attempt's cancellation was
\* requested (Cancelled).
Terminal(a) == att[a].pc = "done" \/ att[a].cancelReq

\* C17: terminal states are absorbing: once an attempt is Closed, Failed or
\* Cancelled, no step consumes a further fragment, dispatches a record to
\* onMessage or invokes onError for it.
C17_TerminalAbsorbing ==
  [][\A a \in Attempts :
       Terminal(a) =>
         /\ att'[a].msgs = att[a].msgs
         /\ att'[a].errors = att[a].errors
         /\ att'[a].pos = att[a].pos]_vars

\* C18: when the response is not ok, connect ends in the catch (Failed)
\* without reading or dispatching anything of the body, then or later, and
\* onError is invoked exactly once unless the attempt's cancellation was
\* requested before.
C18_NotOkFails ==
  [][\A a \in Attempts :
       /\ att[a].pc = "awaitFetch" /\ att[a].settled = "notok" /\ att'[a].pc # "awaitFetch" =>
            /\ att'[a].pc = "done" /\ att'[a].outcome = "failed"
            /\ att'[a].failure = "status"
            /\ att'[a].errors = IF att[a].cancelReq THEN 0 ELSE 1
       /\ att'[a].failure = "status" =>
            /\ att'[a].pc = "done" /\ att'[a].pos = 0 /\ att'[a].msgs = <<>>
            /\ ~att'[a].failAfterCancel => att'[a].errors = 1]_vars

\* The response was not ok, onError was invoked once, and the cancellation
\* came afterwards.
C18_Witness ==
  \E a \in Attempts :
    /\ att[a].failure = "status" /\ ~att[a].failAfterCancel
    /\ att[a].errors = 1 /\ att[a].outcome = "failed" /\ att[a].cancelReq

\* The current event after the lines of one block alone, from an empty one.
Alone(block) ==
  ForLines(block, [cur |-> EmptyEvent, out |-> <<>>, thrown |-> FALSE, disc |-> 0],
           WellBehaved).cur

\* C19: the current event is reset at every blank line, whether or not a
\* record was dispatched: the current event and every dispatched record hold
\* only what the lines since the previous blank line set, and a blank line
\* that follows a blank line dispatches nothing.
C19_ResetAtBlankLine ==
  \A a \in Attempts :
    LET lines == ConsumedLines(a)
        ends == Emitting(lines)
        msgs == att[a].msgs
    IN /\ att[a].pc = "awaitRead" => att[a].cur = Alone(BlockOf(lines, Len(lines) + 1))
       /\ Len(msgs) = Cardinality(ends)
       /\ \A k \in 1..Len(msgs) : msgs[k] = Message(Alone(BlockOf(lines, Nth(ends, k))))
       /\ \A i \in ends : i > 1 /\ ~IsBlank(lines[i - 1])

\* An event field, a blank line, "data:a" and a blank line were consumed:
\* the first blank line dispatched nothing, and the record dispatched at the
\* second one carries no event.
C19_Witness ==
  /\ serverBody = Line_event_s \o <<"\n", "\n">> \o Line_data_a \o <<"\n", "\n">>
  /\ att[1].pos = Len(serverBody) /\ att[1].pc = "awaitRead"
  /\ att[1].msgs = <<[event |-> Undef, data |-> Str(<<"a">>), id |-> Undef]>>
  /\ att[1].cur = EmptyEvent

\* The current event and the records dispatched when every complete line
\* consumed is processed once, in order.
EachLineOnce(a) ==
  ForLines(ConsumedLines(a),
           [cur |-> EmptyEvent, out |-> <<>>, thrown |-> FALSE, disc |-> 0],
           WellBehaved)

\* C20: after every fragment the buffer holds no newline and is exactly the
\* text decoded after the last newline received so far, and every complete
\* line was processed exactly once: the current event and the records
\* dispatched are those of one pass over the complete lines.
C20_PendingLine ==
  \A a \in Attempts :
    /\ \A i \in 1..Len(att[a].buffer) : att[a].buffer[i] # "\n"
    /\ att[a].pc = "awaitRead" =>
         /\ att[a].buffer = PopLast(Split(ConsumedText(a)))
         /\ att[a].cur = EachLineOnce(a).cur
    /\ att[a].msgs = EachLineOnce(a).out

\* "data: a", a newline, "id:" and the first byte of a two-byte character
\* were consumed in fragments one of which ended inside a line: the buffer
\* holds "id:", the decoder holds the byte.
C20_Witness ==
  /\ serverBody = <<"d", "a", "t", "a", ":", " ", "a", "\n",
                    "i", "d", ":", LeadByte, ContByte, "\n">>
  /\ att[1].pos = 12 /\ att[1].pc = "awaitRead"
  /\ att[1].buffer = <<"i", "d", ":">> /\ att[1].dec = <<LeadByte>>
  /\ att[1].cur.data = Str(<<"a">>)

====
